---- MODULE Spec2Model ----
(***************************************************************************)
(* Model of the JSON document store of src/src/db.ts (class Database).     *)
(*                                                                         *)
(* A document is a function from field names to values, a collection is a  *)
(* sequence of documents and the Store (this.data) is a function from the  *)
(* collection names that have been referenced to their collections.  The   *)
(* backing file holds the JSON text written by save(); the text is         *)
(* modelled as a sequence of <<collection, documents>> entries, each       *)
(* document a sequence of <<field, value>> members.  Field values are     *)
(* integers (id, expiresAt, age), except those of the member name, which   *)
(* are strings.                                                            *)
(***************************************************************************)
EXTENDS Integers, Sequences, FiniteSets, TLC

VARIABLES
  data,               \* this.data
  file,               \* the text of the backing file
  transactionBackup,  \* this.transactionBackup
  backups,            \* the text of the backup files, by path
  now,                \* Date.now()
  lastOp,             \* the last call: name, arguments, error, result
  atStart,            \* history: this.data as it was at the pending startTransaction
  starts,             \* history: startTransaction calls since the manager was last Idle
  atBackup,           \* history: this.data as it was at the backup to each path
  calls               \* the insert calls in flight: position, arguments, outcome

vars == <<data, file, transactionBackup, backups, now, lastOp, atStart, starts, atBackup, calls>>

(***************************************************************************)
(* Bounds.                                                                 *)
(***************************************************************************)
\* documents held by the Store, all collections together
MaxDocs == 2
\* the clock runs from 1 to MaxNow
MaxNow == 2
\* startTransaction calls without a commit or rollback in between
MaxStarts == 2
\* insert calls issued without awaiting one another
MaxCalls == 2

Collections == {"users", "logs"}
Ids == {1, 2}
Paths == {"backup.json"}

\* documents handed to insert
InsertDocs ==
  { [id |-> 1, age |-> 25],
    [id |-> 2, age |-> 30, expiresAt |-> 2],
    [id |-> 1, expiresAt |-> 0] }

\* partial documents handed to update
Partials ==
  { [age |-> 26],
    [id |-> 2] }

\* the order in which the text lists collections and members; JSON.stringify
\* follows the order of creation, which JSON.parse gives no meaning to, so one
\* fixed order stands for it
CollectionOrder == <<"users", "logs">>
FieldOrder == <<"id", "expiresAt", "age", "name">>

(***************************************************************************)
(* Sequence helpers.                                                       *)
(***************************************************************************)
Range(s) == {s[i] : i \in 1..Len(s)}

Max2(a, b) == IF a > b THEN a ELSE b
Min2(a, b) == IF a < b THEN a ELSE b

\* Array.prototype.slice(start, end), negative indices counting from the end
Slice(s, start, end) ==
  LET len == Len(s)
      from == IF start < 0 THEN Max2(len + start, 0) ELSE Min2(start, len)
      to == IF end < 0 THEN Max2(len + end, 0) ELSE Min2(end, len)
  IN  SubSeq(s, from + 1, to)

\* the rearrangements of an array
Rearrangements(s) ==
  LET n == Len(s)
      bij == {f \in [1..n -> 1..n] : \A i, j \in 1..n : f[i] = f[j] => i = j}
  IN  {[i \in 1..n |-> s[f[i]]] : f \in bij}

(***************************************************************************)
(* JSON text.                                                              *)
(***************************************************************************)
StringifyItem(item) ==
  LET ks == SelectSeq(FieldOrder, LAMBDA k : k \in DOMAIN item)
  IN  [i \in 1..Len(ks) |-> <<ks[i], item[ks[i]]>>]

\* JSON.stringify(this.data)
Stringify(store) ==
  LET cs == SelectSeq(CollectionOrder, LAMBDA c : c \in DOMAIN store)
  IN  [i \in 1..Len(cs) |->
         <<cs[i], [j \in 1..Len(store[cs[i]]) |-> StringifyItem(store[cs[i]][j])]>>]

ParseItem(text) ==
  [k \in {text[i][1] : i \in 1..Len(text)} |->
     text[CHOOSE i \in 1..Len(text) : text[i][1] = k][2]]

\* JSON.parse(text)
Parse(text) ==
  [c \in {text[i][1] : i \in 1..Len(text)} |->
     LET items == text[CHOOSE i \in 1..Len(text) : text[i][1] = c][2]
     IN  [j \in 1..Len(items) |-> ParseItem(items[j])]]

\* JSON.parse(JSON.stringify(store))
DeepCopy(store) == Parse(Stringify(store))

(***************************************************************************)
(* The Store.                                                              *)
(***************************************************************************)
EmptyStore == [c \in {} |-> <<>>]

\* transactionBackup and a backup file are <<>> when absent, <<content>> when present
Null == <<>>
Some(v) == <<v>>

TotalDocs(store) ==
  LET RECURSIVE Sum(_)
      Sum(cs) == IF cs = {} THEN 0
                 ELSE LET c == CHOOSE x \in cs : TRUE
                      IN  Len(store[c]) + Sum(cs \ {c})
  IN  Sum(DOMAIN store)

\* save()
save(store) == Stringify(store)

\* ensureCollection(collection)
ensureCollection(store, collection) ==
  IF collection \in DOMAIN store THEN store ELSE store @@ (collection :> <<>>)

\* the filter predicate of cleanExpiredItems: !item.expiresAt || item.expiresAt > now
Retained(item, t) ==
  \/ "expiresAt" \notin DOMAIN item
  \/ item.expiresAt = 0
  \/ item.expiresAt > t

\* cleanExpiredItems(collection): the Store it leaves
cleanExpiredItems(store, collection, t) ==
  LET s == ensureCollection(store, collection)
  IN  [s EXCEPT ![collection] = SelectSeq(@, LAMBDA item : Retained(item, t))]

\* variant: update replaces the document by the given fields
Merge_replace(old, updatedItem) == updatedItem

\* { ...old, ...updatedItem }
Merge(old, updatedItem) ==
  [k \in DOMAIN old \cup DOMAIN updatedItem |->
     IF k \in DOMAIN updatedItem THEN updatedItem[k] ELSE old[k]]

\* findIndex((item) => item.id === id), 0 when there is none
findIndex(s, id) ==
  IF \E i \in 1..Len(s) : s[i].id = id
  THEN CHOOSE i \in 1..Len(s) : s[i].id = id /\ \A j \in 1..(i - 1) : s[j].id # id
  ELSE 0

HasId(s, id) == \E i \in 1..Len(s) : s[i].id = id

(***************************************************************************)
(* The record of the last call: its name, arguments, error and result.     *)
(***************************************************************************)
Call(op, c, id, doc, par, err, res, num) ==
  [op |-> op, c |-> c, id |-> id, doc |-> doc, par |-> par,
   err |-> err, res |-> res, num |-> num]

NoDoc == <<>>
NoPar == <<>>

\* the insert calls that may be in flight together, and a call not yet issued
Callers == 1..MaxCalls
InFlight(pc, c, item, err, text) ==
  [pc |-> pc, c |-> c, item |-> item, err |-> err, text |-> text]
Idle == InFlight("idle", "", NoDoc, "", <<>>)

Init ==
  /\ data = EmptyStore
  /\ file = save(EmptyStore)
  /\ transactionBackup = Null
  /\ backups = [p \in Paths |-> Null]
  /\ now = 1
  /\ lastOp = Call("init", "", 0, NoDoc, NoPar, "", <<>>, 0)
  /\ atStart = Null
  /\ starts = 0
  /\ atBackup = [p \in Paths |-> Null]
  /\ calls = [k \in Callers |-> Idle]

(***************************************************************************)
(* CRUD operations.                                                        *)
(***************************************************************************)
\* variant: the duplicate check compares whole documents
insert_wholeItem(collection, item) ==
  LET d1 == ensureCollection(data, collection)
  IN  IF \E i \in 1..Len(d1[collection]) : d1[collection][i] = item
      THEN /\ data' = d1
           /\ lastOp' = Call("insert", collection, item.id, item, NoPar, "DuplicateKey", <<>>, 0)
           /\ UNCHANGED <<file, transactionBackup, backups, now, atStart, starts, atBackup, calls>>
      ELSE /\ TotalDocs(data) < MaxDocs
           /\ data' = [d1 EXCEPT ![collection] = Append(@, item)]
           /\ file' = save(data')
           /\ lastOp' = Call("insert", collection, item.id, item, NoPar, "", <<>>, 0)
           /\ UNCHANGED <<transactionBackup, backups, now, atStart, starts, atBackup, calls>>

\* variant: the duplicate check looks at the documents that have not expired
insert_sweptCheck(collection, item) ==
  LET d1 == ensureCollection(data, collection)
  IN  IF HasId(SelectSeq(d1[collection], LAMBDA existing : Retained(existing, now)), item.id)
      THEN /\ data' = d1
           /\ lastOp' = Call("insert", collection, item.id, item, NoPar, "DuplicateKey", <<>>, 0)
           /\ UNCHANGED <<file, transactionBackup, backups, now, atStart, starts, atBackup, calls>>
      ELSE /\ TotalDocs(data) < MaxDocs
           /\ data' = [d1 EXCEPT ![collection] = Append(@, item)]
           /\ file' = save(data')
           /\ lastOp' = Call("insert", collection, item.id, item, NoPar, "", <<>>, 0)
           /\ UNCHANGED <<transactionBackup, backups, now, atStart, starts, atBackup, calls>>

insert(collection, item) ==
  LET d1 == ensureCollection(data, collection)
  IN  IF HasId(d1[collection], item.id)
      THEN /\ data' = d1
           /\ lastOp' = Call("insert", collection, item.id, item, NoPar, "DuplicateKey", <<>>, 0)
           /\ UNCHANGED <<file, transactionBackup, backups, now, atStart, starts, atBackup, calls>>
      ELSE /\ TotalDocs(data) < MaxDocs
           /\ data' = [d1 EXCEPT ![collection] = Append(@, item)]
           /\ file' = save(data')
           /\ lastOp' = Call("insert", collection, item.id, item, NoPar, "", <<>>, 0)
           /\ UNCHANGED <<transactionBackup, backups, now, atStart, starts, atBackup, calls>>

\* variant: update saves before it reports a missing id
update_saveOnMiss(collection, id, updatedItem) ==
  LET d1 == ensureCollection(data, collection)
      index == findIndex(d1[collection], id)
  IN  IF index > 0
      THEN /\ data' = [d1 EXCEPT ![collection][index] = Merge(@, updatedItem)]
           /\ file' = save(data')
           /\ lastOp' = Call("update", collection, id, updatedItem, NoPar, "", <<>>, 0)
           /\ UNCHANGED <<transactionBackup, backups, now, atStart, starts, atBackup, calls>>
      ELSE /\ data' = d1
           /\ file' = save(data')
           /\ lastOp' = Call("update", collection, id, updatedItem, NoPar, "NotFound", <<>>, 0)
           /\ UNCHANGED <<transactionBackup, backups, now, atStart, starts, atBackup, calls>>

update(collection, id, updatedItem) ==
  LET d1 == ensureCollection(data, collection)
      index == findIndex(d1[collection], id)
  IN  IF index > 0
      THEN /\ data' = [d1 EXCEPT ![collection][index] = Merge(@, updatedItem)]
           /\ file' = save(data')
           /\ lastOp' = Call("update", collection, id, updatedItem, NoPar, "", <<>>, 0)
           /\ UNCHANGED <<transactionBackup, backups, now, atStart, starts, atBackup, calls>>
      ELSE /\ data' = d1
           /\ lastOp' = Call("update", collection, id, updatedItem, NoPar, "NotFound", <<>>, 0)
           /\ UNCHANGED <<file, transactionBackup, backups, now, atStart, starts, atBackup, calls>>

\* variant: delete saves only when it removed a document
delete_saveOnMatch(collection, id) ==
  LET d1 == ensureCollection(data, collection)
  IN  /\ data' = [d1 EXCEPT ![collection] = SelectSeq(@, LAMBDA item : item.id # id)]
      /\ file' = IF HasId(d1[collection], id) THEN save(data') ELSE file
      /\ lastOp' = Call("delete", collection, id, NoDoc, NoPar, "", <<>>, 0)
      /\ UNCHANGED <<transactionBackup, backups, now, atStart, starts, atBackup, calls>>

delete(collection, id) ==
  LET d1 == ensureCollection(data, collection)
  IN  /\ data' = [d1 EXCEPT ![collection] = SelectSeq(@, LAMBDA item : item.id # id)]
      /\ file' = save(data')
      /\ lastOp' = Call("delete", collection, id, NoDoc, NoPar, "", <<>>, 0)
      /\ UNCHANGED <<transactionBackup, backups, now, atStart, starts, atBackup, calls>>

clearCollection(collection) ==
  LET d1 == ensureCollection(data, collection)
  IN  /\ data' = [d1 EXCEPT ![collection] = <<>>]
      /\ file' = save(data')
      /\ lastOp' = Call("clearCollection", collection, 0, NoDoc, NoPar, "", <<>>, 0)
      /\ UNCHANGED <<transactionBackup, backups, now, atStart, starts, atBackup, calls>>

(***************************************************************************)
(* The clock (Date.now()).                                                 *)
(***************************************************************************)
Tick ==
  /\ now < MaxNow
  /\ now' = now + 1
  /\ lastOp' = Call("tick", "", 0, NoDoc, NoPar, "", <<>>, 0)
  /\ UNCHANGED <<data, file, transactionBackup, backups, atStart, starts, atBackup, calls>>

(***************************************************************************)
(* Read operations.  All but getCount, filter and exists go through        *)
(* cleanExpiredItems, which prunes the collection and saves.               *)
(***************************************************************************)
getAll(collection) ==
  LET d1 == cleanExpiredItems(data, collection, now)
  IN  /\ data' = d1
      /\ file' = save(d1)
      /\ lastOp' = Call("getAll", collection, 0, NoDoc, NoPar, "", d1[collection], 0)
      /\ UNCHANGED <<transactionBackup, backups, now, atStart, starts, atBackup, calls>>

getById(collection, id) ==
  LET d1 == cleanExpiredItems(data, collection, now)
      index == findIndex(d1[collection], id)
  IN  /\ data' = d1
      /\ file' = save(d1)
      /\ lastOp' = Call("getById", collection, id, NoDoc, NoPar, "",
                        IF index > 0 THEN <<d1[collection][index]>> ELSE <<>>, 0)
      /\ UNCHANGED <<transactionBackup, backups, now, atStart, starts, atBackup, calls>>

getCount(collection) ==
  LET d1 == ensureCollection(data, collection)
  IN  /\ data' = d1
      /\ lastOp' = Call("getCount", collection, 0, NoDoc, NoPar, "", <<>>, Len(d1[collection]))
      /\ UNCHANGED <<file, transactionBackup, backups, now, atStart, starts, atBackup, calls>>

\* the predicates handed to filter
Predicates == {"any", "adult"}
Satisfies(predicate, item) ==
  \/ predicate = "any"
  \/ predicate = "adult" /\ "age" \in DOMAIN item /\ item.age > 25

filter(collection, predicate) ==
  LET d1 == ensureCollection(data, collection)
  IN  /\ data' = d1
      /\ lastOp' = Call("filter", collection, 0, NoDoc, <<predicate>>, "",
                        SelectSeq(d1[collection], LAMBDA item : Satisfies(predicate, item)), 0)
      /\ UNCHANGED <<file, transactionBackup, backups, now, atStart, starts, atBackup, calls>>

exists(collection, id) ==
  LET d1 == ensureCollection(data, collection)
  IN  /\ data' = d1
      /\ lastOp' = Call("exists", collection, id, NoDoc, NoPar, "", <<>>,
                        IF HasId(d1[collection], id) THEN 1 ELSE 0)
      /\ UNCHANGED <<file, transactionBackup, backups, now, atStart, starts, atBackup, calls>>

paginate(collection, page, limit) ==
  LET d1 == cleanExpiredItems(data, collection, now)
      start == (page - 1) * limit
  IN  /\ data' = d1
      /\ file' = save(d1)
      /\ lastOp' = Call("paginate", collection, 0, NoDoc, <<page, limit>>, "",
                        Slice(d1[collection], start, start + limit), 0)
      /\ UNCHANGED <<transactionBackup, backups, now, atStart, starts, atBackup, calls>>

\* a[key] > b[key]; a comparison with an absent member is false
Greater(a, b, key) == key \in DOMAIN a /\ key \in DOMAIN b /\ a[key] > b[key]

\* the comparator of sort
compare(a, b, key, order) ==
  (IF Greater(a, b, key) THEN 1 ELSE -1) * (IF order = "asc" THEN 1 ELSE -1)

\* Array.prototype.sort: a pair the comparator orders the same way from both
\* sides ends in that order; the order of the other pairs is left to the engine
Sorted(s, key, order) ==
  {p \in Rearrangements(s) :
     \A i, j \in 1..Len(p) :
        i < j => ~(compare(p[i], p[j], key, order) > 0 /\ compare(p[j], p[i], key, order) < 0)}

\* sort works in place on the array cleanExpiredItems returns, after its save
sort(collection, key, order) ==
  LET d1 == cleanExpiredItems(data, collection, now)
  IN  \E p \in Sorted(d1[collection], key, order) :
        /\ data' = [d1 EXCEPT ![collection] = p]
        /\ file' = save(d1)
        /\ lastOp' = Call("sort", collection, 0, NoDoc, <<key, order>>, "", p, 0)
        /\ UNCHANGED <<transactionBackup, backups, now, atStart, starts, atBackup, calls>>

search(collection, key, value) ==
  LET d1 == cleanExpiredItems(data, collection, now)
  IN  /\ data' = d1
      /\ file' = save(d1)
      /\ lastOp' = Call("search", collection, 0, NoDoc, <<key, value>>, "",
                        SelectSeq(d1[collection],
                               LAMBDA item : key \in DOMAIN item /\ item[key] = value), 0)
      /\ UNCHANGED <<transactionBackup, backups, now, atStart, starts, atBackup, calls>>

\* the members that hold strings; every other member holds a number
StringFields == {"name"}

\* typeof item[key] === "number"
IsNumber(item, key) == key \in DOMAIN item /\ key \notin StringFields

\* the values aggregate reduces: item[key] of the items that have a number there
NumericValues(s, key) ==
  LET having == SelectSeq(s, LAMBDA item : IsNumber(item, key))
  IN  [i \in 1..Len(having) |-> having[i][key]]

RECURSIVE SumOf(_)
SumOf(values) == IF values = <<>> THEN 0 ELSE Head(values) + SumOf(Tail(values))

MinOf(values) == CHOOSE v \in Range(values) : \A w \in Range(values) : v <= w
MaxOf(values) == CHOOSE v \in Range(values) : \A w \in Range(values) : v >= w

\* the result of aggregate as a fraction <<numerator, denominator>>
Reduce(values, operation) ==
  IF operation = "sum" THEN <<SumOf(values), 1>>
  ELSE IF operation = "avg" THEN <<SumOf(values), Len(values)>>
  ELSE IF operation = "min" THEN <<MinOf(values), 1>>
  ELSE <<MaxOf(values), 1>>

aggregate(collection, key, operation) ==
  LET d1 == cleanExpiredItems(data, collection, now)
      values == NumericValues(d1[collection], key)
  IN  /\ data' = d1
      /\ file' = save(d1)
      /\ IF Len(values) = 0
         THEN lastOp' = Call("aggregate", collection, 0, NoDoc, <<key, operation>>,
                             "NoNumericData", <<>>, 0)
         ELSE lastOp' = Call("aggregate", collection, 0, NoDoc,
                             <<key, operation, Reduce(values, operation)[2]>>, "",
                             SelectSeq(d1[collection], LAMBDA item : IsNumber(item, key)),
                             Reduce(values, operation)[1])
      /\ UNCHANGED <<transactionBackup, backups, now, atStart, starts, atBackup, calls>>

(***************************************************************************)
(* Backup and restore.                                                     *)
(***************************************************************************)
backup(backupFile) ==
  /\ backups' = [backups EXCEPT ![backupFile] = Some(file)]
  /\ atBackup' = [atBackup EXCEPT ![backupFile] = Some(data)]
  /\ lastOp' = Call("backup", "", 0, NoDoc, <<backupFile>>, "", <<>>, 0)
  /\ UNCHANGED <<data, file, transactionBackup, now, atStart, starts, calls>>

\* variant: restore loads the backup and does not save
restore_noSave(backupFile) ==
  IF backups[backupFile] # Null
  THEN /\ data' = Parse(backups[backupFile][1])
       /\ lastOp' = Call("restore", "", 0, NoDoc, <<backupFile>>, "", <<>>, 0)
       /\ UNCHANGED <<file, transactionBackup, backups, now, atStart, starts, atBackup, calls>>
  ELSE /\ lastOp' = Call("restore", "", 0, NoDoc, <<backupFile>>, "NotFound", <<>>, 0)
       /\ UNCHANGED <<data, file, transactionBackup, backups, now, atStart, starts, atBackup, calls>>

restore(backupFile) ==
  IF backups[backupFile] # Null
  THEN /\ data' = Parse(backups[backupFile][1])
       /\ file' = save(data')
       /\ lastOp' = Call("restore", "", 0, NoDoc, <<backupFile>>, "", <<>>, 0)
       /\ UNCHANGED <<transactionBackup, backups, now, atStart, starts, atBackup, calls>>
  ELSE /\ lastOp' = Call("restore", "", 0, NoDoc, <<backupFile>>, "NotFound", <<>>, 0)
       /\ UNCHANGED <<data, file, transactionBackup, backups, now, atStart, starts, atBackup, calls>>

(***************************************************************************)
(* Transactions.                                                           *)
(***************************************************************************)
\* variant: a startTransaction while Pending keeps the earlier snapshot
startTransaction_keepFirst ==
  /\ starts < MaxStarts
  /\ transactionBackup' = IF transactionBackup # Null THEN transactionBackup
                          ELSE Some(DeepCopy(data))
  /\ atStart' = Some(data)
  /\ starts' = starts + 1
  /\ lastOp' = Call("startTransaction", "", 0, NoDoc, NoPar, "", <<>>, 0)
  /\ UNCHANGED <<data, file, backups, now, atBackup, calls>>

startTransaction ==
  /\ starts < MaxStarts
  /\ transactionBackup' = Some(DeepCopy(data))
  /\ atStart' = Some(data)
  /\ starts' = starts + 1
  /\ lastOp' = Call("startTransaction", "", 0, NoDoc, NoPar, "", <<>>, 0)
  /\ UNCHANGED <<data, file, backups, now, atBackup, calls>>

\* variant: commit puts the snapshot back
commitTransaction_apply ==
  /\ data' = IF transactionBackup # Null THEN DeepCopy(transactionBackup[1]) ELSE data
  /\ transactionBackup' = Null
  /\ file' = save(data')
  /\ atStart' = Null
  /\ starts' = 0
  /\ lastOp' = Call("commitTransaction", "", 0, NoDoc,
                    <<IF transactionBackup # Null THEN "pending" ELSE "idle">>, "", <<>>, starts)
  /\ UNCHANGED <<backups, now, atBackup, calls>>

commitTransaction ==
  /\ transactionBackup' = Null
  /\ file' = save(data)
  /\ atStart' = Null
  /\ starts' = 0
  /\ lastOp' = Call("commitTransaction", "", 0, NoDoc,
                    <<IF transactionBackup # Null THEN "pending" ELSE "idle">>, "", <<>>, starts)
  /\ UNCHANGED <<data, backups, now, atBackup, calls>>

\* variant: rollback drops the snapshot without putting it back
rollbackTransaction_drop ==
  IF transactionBackup # Null
  THEN /\ transactionBackup' = Null
       /\ file' = save(data)
       /\ atStart' = Null
       /\ starts' = 0
       /\ lastOp' = Call("rollbackTransaction", "", 0, NoDoc, <<"restored">>, "", <<>>, starts)
       /\ UNCHANGED <<data, backups, now, atBackup, calls>>
  ELSE /\ lastOp' = Call("rollbackTransaction", "", 0, NoDoc, <<"idle">>, "", <<>>, 0)
       /\ UNCHANGED <<data, file, transactionBackup, backups, now, atStart, starts, atBackup, calls>>

\* variant: rollback saves also when there is no snapshot
rollbackTransaction_alwaysSave ==
  IF transactionBackup # Null
  THEN /\ data' = DeepCopy(transactionBackup[1])
       /\ transactionBackup' = Null
       /\ file' = save(data')
       /\ atStart' = Null
       /\ starts' = 0
       /\ lastOp' = Call("rollbackTransaction", "", 0, NoDoc, <<"restored">>, "", <<>>, starts)
       /\ UNCHANGED <<backups, now, atBackup, calls>>
  ELSE /\ file' = save(data)
       /\ lastOp' = Call("rollbackTransaction", "", 0, NoDoc, <<"idle">>, "", <<>>, 0)
       /\ UNCHANGED <<data, transactionBackup, backups, now, atStart, starts, atBackup, calls>>

rollbackTransaction ==
  IF transactionBackup # Null
  THEN /\ data' = DeepCopy(transactionBackup[1])
       /\ transactionBackup' = Null
       /\ file' = save(data')
       /\ atStart' = Null
       /\ starts' = 0
       /\ lastOp' = Call("rollbackTransaction", "", 0, NoDoc, <<"restored">>, "", <<>>, starts)
       /\ UNCHANGED <<backups, now, atBackup, calls>>
  ELSE /\ lastOp' = Call("rollbackTransaction", "", 0, NoDoc, <<"idle">>, "", <<>>, 0)
       /\ UNCHANGED <<data, file, transactionBackup, backups, now, atStart, starts, atBackup, calls>>

(***************************************************************************)
(* insert calls that are not awaited.  A call runs to its first await, the *)
(* one on ensureCollection, and is resumed later; the duplicate check and  *)
(* the push run in that one resumption, up to the await inside save, where *)
(* the text to write is already made; the write lands later.               *)
(***************************************************************************)
insertCall(k, collection, item) ==
  /\ calls[k].pc = "idle"
  /\ data' = ensureCollection(data, collection)
  /\ calls' = [calls EXCEPT ![k] = InFlight("awaitEnsure", collection, item, "", <<>>)]
  /\ UNCHANGED <<file, transactionBackup, backups, now, lastOp, atStart, starts, atBackup>>

\* variant: the call is suspended once more between the check and the push
insertResume_suspendedCheck(k) ==
  LET collection == calls[k].c
      item == calls[k].item
  IN  \/ /\ calls[k].pc = "awaitEnsure"
         /\ IF HasId(data[collection], item.id)
            THEN /\ calls' = [calls EXCEPT ![k] = InFlight("rejected", collection, item, "DuplicateKey", <<>>)]
                 /\ lastOp' = Call("insert", collection, item.id, item, NoPar, "DuplicateKey", <<>>, 0)
            ELSE /\ calls' = [calls EXCEPT ![k] = InFlight("checked", collection, item, "", <<>>)]
                 /\ UNCHANGED lastOp
         /\ UNCHANGED <<data, file, transactionBackup, backups, now, atStart, starts, atBackup>>
      \/ /\ calls[k].pc = "checked"
         /\ data' = [data EXCEPT ![collection] = Append(@, item)]
         /\ calls' = [calls EXCEPT ![k] = InFlight("awaitSave", collection, item, "", save(data'))]
         /\ lastOp' = Call("insert", collection, item.id, item, NoPar, "", <<>>, 0)
         /\ UNCHANGED <<file, transactionBackup, backups, now, atStart, starts, atBackup>>

insertResume(k) ==
  LET collection == calls[k].c
      item == calls[k].item
  IN  /\ calls[k].pc = "awaitEnsure"
      /\ IF HasId(data[collection], item.id)
         THEN /\ calls' = [calls EXCEPT ![k] = InFlight("rejected", collection, item, "DuplicateKey", <<>>)]
              /\ lastOp' = Call("insert", collection, item.id, item, NoPar, "DuplicateKey", <<>>, 0)
              /\ UNCHANGED <<data, file, transactionBackup, backups, now, atStart, starts, atBackup>>
         ELSE /\ data' = [data EXCEPT ![collection] = Append(@, item)]
              /\ calls' = [calls EXCEPT ![k] = InFlight("awaitSave", collection, item, "", save(data'))]
              /\ lastOp' = Call("insert", collection, item.id, item, NoPar, "", <<>>, 0)
              /\ UNCHANGED <<file, transactionBackup, backups, now, atStart, starts, atBackup>>

\* writeFile completes and the call resolves
insertSaved(k) ==
  /\ calls[k].pc = "awaitSave"
  /\ file' = calls[k].text
  /\ calls' = [calls EXCEPT ![k] = InFlight("resolved", calls[k].c, calls[k].item, "", <<>>)]
  /\ UNCHANGED <<data, transactionBackup, backups, now, lastOp, atStart, starts, atBackup>>

\* arguments of the read operations
Pages == {-1, 0, 1, 2}
Limits == {1, 2}
SortKeys == {"age"}
Orders == {"asc", "desc"}
SearchArgs == {<<"age", 30>>, <<"id", 1>>}
AggregateKeys == {"age"}
Operations == {"sum", "avg", "min", "max"}

Mutate(collections, items, partials) ==
  \/ \E c \in collections, item \in items : insert(c, item)
  \/ \E c \in collections, id \in Ids, p \in partials : update(c, id, p)
  \/ \E c \in collections, id \in Ids : delete(c, id)
  \/ \E c \in collections : clearCollection(c)

Read ==
  \/ \E c \in Collections : getAll(c)
  \/ \E c \in Collections, id \in Ids : getById(c, id)
  \/ \E c \in Collections : getCount(c)
  \/ \E c \in Collections, p \in Predicates : filter(c, p)
  \/ \E c \in Collections, id \in Ids : exists(c, id)
  \/ \E c \in Collections, page \in Pages, limit \in Limits : paginate(c, page, limit)
  \/ \E c \in Collections, key \in SortKeys, order \in Orders : sort(c, key, order)
  \/ \E c \in Collections, a \in SearchArgs : search(c, a[1], a[2])
  \/ \E c \in Collections, key \in AggregateKeys, op \in Operations : aggregate(c, key, op)

Transact ==
  \/ startTransaction
  \/ commitTransaction
  \/ rollbackTransaction

BackupRestore ==
  \/ \E p \in Paths : backup(p)
  \/ \E p \in Paths : restore(p)

\* the operations that write documents, with the sweep of getAll, as time passes
Next ==
  \/ Mutate(Collections, InsertDocs, Partials)
  \/ \E c \in Collections : getAll(c)
  \/ Tick

Spec == Init /\ [][Next]_vars

\* the read operations over inserted documents, as time passes
NextRead ==
  \/ \E c \in Collections, item \in InsertDocs : insert(c, item)
  \/ Read
  \/ Tick

SpecRead == Init /\ [][NextRead]_vars

\* the read operations over documents whose expiresAt, when present, is a
\* time of the clock
TimedDocs == {item \in InsertDocs : "expiresAt" \in DOMAIN item => item.expiresAt > 0}

NextTimed ==
  \/ \E c \in Collections, item \in TimedDocs : insert(c, item)
  \/ Read
  \/ Tick

SpecTimed == Init /\ [][NextTimed]_vars

\* aggregate over documents with and without numbers, as time passes
AggregateDocs ==
  { [id |-> 1, age |-> 25],
    [id |-> 2, age |-> 30, expiresAt |-> 2],
    [id |-> 2, name |-> "Bob"],
    [id |-> 1, age |-> 5, expiresAt |-> 0] }
AggregateArgs == {"age", "name"}

NextAggregate ==
  \/ \E c \in Collections, item \in AggregateDocs : insert(c, item)
  \/ \E c \in Collections, key \in AggregateArgs, op \in Operations : aggregate(c, key, op)
  \/ Tick

SpecAggregate == Init /\ [][NextAggregate]_vars

\* insert calls issued without awaiting one another
NextConcurrent ==
  \/ \E k \in Callers, c \in Collections, item \in InsertDocs : insertCall(k, c, item)
  \/ \E k \in Callers : insertResume(k)
  \/ \E k \in Callers : insertSaved(k)

SpecConcurrent == Init /\ [][NextConcurrent]_vars

\* insert alone, as time passes
NextInsert ==
  \/ \E c \in Collections, item \in InsertDocs : insert(c, item)
  \/ Tick

SpecInsert == Init /\ [][NextInsert]_vars

\* transactions, backup and restore around the operations on one collection
TxnCollections == {"users"}
TxnDocs == {[id |-> 1, age |-> 25], [id |-> 2, age |-> 30, expiresAt |-> 2]}
TxnPartials == {[age |-> 26]}

NextTxn ==
  \/ Mutate(TxnCollections, TxnDocs, TxnPartials)
  \/ \E c \in TxnCollections : getAll(c)
  \/ \E c \in TxnCollections, key \in SortKeys : sort(c, key, "desc")
  \/ Transact
  \/ BackupRestore
  \/ Tick

SpecTxn == Init /\ [][NextTxn]_vars

(***************************************************************************)
(* Properties.                                                             *)
(***************************************************************************)
\* the documents of a collection, none when it was never referenced
Docs(store, c) == IF c \in DOMAIN store THEN store[c] ELSE <<>>

IdsOf(s) == {s[i].id : i \in 1..Len(s)}

NoDuplicateId(s) == \A i, j \in 1..Len(s) : s[i].id = s[j].id => i = j

\* position of the first document with the id
PositionOf(s, id) == CHOOSE i \in 1..Len(s) : s[i].id = id /\ \A j \in 1..(i - 1) : s[j].id # id

OthersUnchanged(c) == \A k \in Collections \ {c} : Docs(data', k) = Docs(data, k)

\* expired in the sense of the contract: expiresAt present and not after t
ExpiredAt(item, t) == "expiresAt" \in DOMAIN item /\ item.expiresAt <= t

\* after holds exactly the documents of before that Keep accepts, in their order
KeepsInOrder(before, after, Keep(_)) ==
  \E f \in [1..Len(after) -> 1..Len(before)] :
     /\ \A i, j \in 1..Len(after) : i < j => f[i] < f[j]
     /\ \A i \in 1..Len(after) : after[i] = before[f[i]]
     /\ {f[i] : i \in 1..Len(after)} = {k \in 1..Len(before) : Keep(before[k])}

\* C1: a rollbackTransaction that finds a pending snapshot leaves this.data
\* equal to what it was at the startTransaction that took the snapshot,
\* whatever inserts, updates, deletes, clears, sweeps, sorts and restores
\* came in between.
C1_RollbackRestoresStart ==
  [][(lastOp'.op = "rollbackTransaction" /\ atStart # Null) => data' = atStart[1]]_vars

\* a rollback has put back two documents, one of them expired by now
C1_Witness ==
  /\ lastOp.op = "rollbackTransaction"
  /\ lastOp.par = <<"restored">>
  /\ Len(Docs(data, "users")) = 2
  /\ \E i \in 1..2 : ExpiredAt(data["users"][i], now)

\* C2: after any sequence of insert calls from the empty Store no collection
\* holds two documents with the same id.
C2_InsertKeepsIdsUnique == \A c \in DOMAIN data : NoDuplicateId(data[c])

\* an insert was refused in a collection that already holds two documents
C2_Witness ==
  /\ lastOp.op = "insert"
  /\ lastOp.err = "DuplicateKey"
  /\ Len(data[lastOp.c]) = 2

\* C3: in every reachable state, updates with a partial that carries an id
\* included, no collection holds two documents with the same id.
C3_IdsUniqueInEveryState == \A c \in Collections : NoDuplicateId(Docs(data, c))

\* C4: insert fails with DuplicateKey exactly when the id is stored in the
\* collection, expired or not; a failed insert changes no stored document and
\* not the file; a successful one appends the document, keeps the rest and
\* leaves the file equal to the Store.
C4_InsertContract ==
  [][lastOp'.op = "insert" =>
       LET c == lastOp'.c
           item == lastOp'.doc
           before == Docs(data, c)
       IN  /\ lastOp'.err \in {"", "DuplicateKey"}
           /\ (lastOp'.err = "DuplicateKey") <=> (item.id \in IdsOf(before))
           /\ lastOp'.err = "DuplicateKey" =>
                /\ \A k \in Collections : Docs(data', k) = Docs(data, k)
                /\ file' = file
           /\ lastOp'.err = "" =>
                /\ data'[c] = Append(before, item)
                /\ OthersUnchanged(c)
                /\ Parse(file') = data']_vars

\* an insert was refused because of a stored document that has expired
C4_Witness ==
  /\ lastOp.op = "insert"
  /\ lastOp.err = "DuplicateKey"
  /\ \E i \in 1..Len(data[lastOp.c]) :
        /\ data[lastOp.c][i].id = lastOp.id
        /\ ExpiredAt(data[lastOp.c][i], now)
        /\ data[lastOp.c][i].expiresAt # 0

\* C5: a successful update gives the named fields their new values, keeps
\* every other field of the document, keeps the document in its position and
\* changes no other document of any collection.
C5_UpdateMerges ==
  [][(lastOp'.op = "update" /\ lastOp'.err = "") =>
       LET c == lastOp'.c
           partial == lastOp'.doc
           before == Docs(data, c)
           index == PositionOf(before, lastOp'.id)
       IN  /\ lastOp'.id \in IdsOf(before)
           /\ Len(data'[c]) = Len(before)
           /\ \A i \in 1..Len(before) : i # index => data'[c][i] = before[i]
           /\ DOMAIN data'[c][index] = DOMAIN before[index] \cup DOMAIN partial
           /\ \A k \in DOMAIN partial : data'[c][index][k] = partial[k]
           /\ \A k \in DOMAIN before[index] \ DOMAIN partial :
                 data'[c][index][k] = before[index][k]
           /\ OthersUnchanged(c)]_vars

\* the second document of a collection got a new age and kept id and expiresAt
C5_Witness ==
  /\ lastOp.op = "update"
  /\ lastOp.err = ""
  /\ lastOp.doc = [age |-> 26]
  /\ Len(data[lastOp.c]) = 2
  /\ data[lastOp.c][2] = [id |-> 2, age |-> 26, expiresAt |-> 2]

\* C6: update fails with NotFound exactly when the id is not in the
\* collection, a collection never referenced included, and then changes no
\* stored document and does not write the file.
C6_UpdateMissing ==
  [][lastOp'.op = "update" =>
       LET before == Docs(data, lastOp'.c)
       IN  /\ lastOp'.err \in {"", "NotFound"}
           /\ (lastOp'.err = "NotFound") <=> (lastOp'.id \notin IdsOf(before))
           /\ lastOp'.err = "NotFound" =>
                /\ \A k \in Collections : Docs(data', k) = Docs(data, k)
                /\ file' = file]_vars

\* an update was refused on a collection that the file has never held
C6_Witness ==
  /\ lastOp.op = "update"
  /\ lastOp.err = "NotFound"
  /\ Docs(data, lastOp.c) = <<>>
  /\ lastOp.c \notin DOMAIN Parse(file)
  /\ TotalDocs(data) > 0

\* C7: delete never fails; afterwards the collection holds no document with
\* the id and exactly the other documents, unchanged and in their order; the
\* other collections are unchanged and the file equals the Store.
C7_DeleteContract ==
  [][lastOp'.op = "delete" =>
       LET c == lastOp'.c
           before == Docs(data, c)
       IN  /\ lastOp'.err = ""
           /\ lastOp'.id \notin IdsOf(data'[c])
           /\ KeepsInOrder(before, data'[c], LAMBDA item : item.id # lastOp'.id)
           /\ OthersUnchanged(c)
           /\ Parse(file') = data']_vars

\* a delete has left a document of another id in the collection
C7_Witness ==
  /\ lastOp.op = "delete"
  /\ Len(data[lastOp.c]) = 1
  /\ data[lastOp.c][1].id # lastOp.id

SweepingReads == {"getAll", "getById", "paginate", "sort", "search", "aggregate"}

\* C8: the result of a sweeping read, and the file the read wrote, hold no
\* document whose expiresAt is present and not after the current time,
\* expiresAt 0 included.
C8_ReadsOmitExpired ==
  lastOp.op \in SweepingReads =>
    /\ \A i \in 1..Len(lastOp.res) : ~ExpiredAt(lastOp.res[i], now)
    /\ \A i \in 1..Len(Docs(Parse(file), lastOp.c)) :
          ~ExpiredAt(Parse(file)[lastOp.c][i], now)

\* C9: getCount returns the number of documents that have not expired, and
\* exists is true only if a document that has not expired has the id.
C9_CountAndExistsSkipExpired ==
  /\ lastOp.op = "getCount" =>
       lastOp.num = Len(SelectSeq(data[lastOp.c], LAMBDA item : ~ExpiredAt(item, now)))
  /\ (lastOp.op = "exists" /\ lastOp.num = 1) =>
       \E i \in 1..Len(data[lastOp.c]) :
          data[lastOp.c][i].id = lastOp.id /\ ~ExpiredAt(data[lastOp.c][i], now)

\* C10: filter returns, in stored order, exactly the documents that have not
\* expired and satisfy the predicate.
C10_FilterSkipsExpired ==
  lastOp.op = "filter" =>
    lastOp.res = SelectSeq(data[lastOp.c],
                           LAMBDA item : ~ExpiredAt(item, now) /\ Satisfies(lastOp.par[1], item))

\* after holds documents of before, each once, in the order they have there
InOrderOf(before, after) ==
  \E f \in [1..Len(after) -> 1..Len(before)] :
     /\ \A i, j \in 1..Len(after) : i < j => f[i] < f[j]
     /\ \A i \in 1..Len(after) : after[i] = before[f[i]]

SameDocs(s, t) == \A c \in Collections : Docs(s, c) = Docs(t, c)

QueryOps == {"sort", "search", "filter", "paginate", "aggregate"}

\* C11: sort, search, filter, paginate and aggregate leave the stored
\* collection with its documents in the order they had, so the stored order
\* stays the insertion order that getAll and paginate then show.
C11_QueriesKeepStoredOrder ==
  [][lastOp'.op \in QueryOps => InOrderOf(Docs(data, lastOp'.c), data'[lastOp'.c])]_vars

\* C12: paginate returns the documents at positions (page-1)*limit up to but
\* excluding (page-1)*limit+limit of the swept collection, and the empty
\* sequence for a page past the end, page 0 and a negative page.
C12_PaginateSlices ==
  lastOp.op = "paginate" =>
    LET s == data[lastOp.c]
        page == lastOp.par[1]
        limit == lastOp.par[2]
        start == (page - 1) * limit
        count == IF page < 1 THEN 0 ELSE Max2(0, Min2(limit, Len(s) - start))
    IN  /\ lastOp.err = ""
        /\ lastOp.res = [i \in 1..count |-> s[start + i]]

\* C13: restore from a path leaves this.data equal, collection by collection
\* and in order, to what this.data was when backup wrote that path.
C13_RestoreGivesBackedUpStore ==
  [][(lastOp'.op = "restore" /\ lastOp'.err = "") =>
       SameDocs(data', atBackup[lastOp'.par[1]][1])]_vars

\* C14: between operations the backing file holds the documents of this.data,
\* collection by collection and in order.
C14_FileEqualsStore == SameDocs(Parse(file), data)

\* C15: at most one snapshot is live and a startTransaction while Pending
\* replaces it by the Store of that moment, so the rollback after a second
\* startTransaction leaves this.data as it was just before that second
\* startTransaction and clears the snapshot, and a rollback that finds no
\* snapshot leaves this.data as it is.
C15_LastStartWins ==
  [][/\ Len(transactionBackup') <= 1
     /\ lastOp'.op = "startTransaction" => transactionBackup' = Some(data)
     /\ (lastOp'.op = "rollbackTransaction" /\ starts >= 2) =>
          /\ data' = atStart[1]
          /\ transactionBackup' = Null
     /\ (lastOp'.op = "rollbackTransaction" /\ lastOp.op = "rollbackTransaction") =>
          data' = data]_vars

\* a rollback after two startTransaction calls has left one of two documents
C15_Witness ==
  /\ lastOp.op = "rollbackTransaction"
  /\ lastOp.par = <<"restored">>
  /\ lastOp.num = 2
  /\ TotalDocs(data) = 1

\* C16: commitTransaction, Pending or Idle, leaves this.data as it is, makes
\* the file equal to it and leaves no snapshot.
C16_CommitKeepsStore ==
  [][lastOp'.op = "commitTransaction" =>
       /\ lastOp'.err = ""
       /\ data' = data
       /\ Parse(file') = data'
       /\ transactionBackup' = Null]_vars

\* a commit of a Pending transaction has kept two documents
C16_Witness ==
  /\ lastOp.op = "commitTransaction"
  /\ lastOp.par = <<"pending">>
  /\ TotalDocs(data) = 2

\* C17: rollbackTransaction with no snapshot raises no error, leaves
\* this.data unchanged and does not write the file.
C17_IdleRollbackIsNoOp ==
  [][(lastOp'.op = "rollbackTransaction" /\ transactionBackup = Null) =>
       /\ lastOp'.err = ""
       /\ data' = data
       /\ file' = file
       /\ transactionBackup' = Null]_vars

\* an Idle rollback has left a file that differs from this.data as it was
C17_Witness ==
  /\ lastOp.op = "rollbackTransaction"
  /\ lastOp.par = <<"idle">>
  /\ ~SameDocs(Parse(file), data)

\* C18: restore fails with NotFound exactly when the path does not exist and
\* then leaves this.data, the file and the snapshot unchanged; otherwise it
\* makes this.data the content of the backup and the file equal to it.
C18_RestoreContract ==
  [][lastOp'.op = "restore" =>
       LET backupFile == lastOp'.par[1]
       IN  /\ lastOp'.err \in {"", "NotFound"}
           /\ (lastOp'.err = "NotFound") <=> (backups[backupFile] = Null)
           /\ lastOp'.err = "NotFound" =>
                /\ data' = data
                /\ file' = file
                /\ transactionBackup' = transactionBackup
           /\ lastOp'.err = "" =>
                /\ data' = Parse(backups[backupFile][1])
                /\ file' = backups[backupFile][1]]_vars

\* a restore has put back two documents over a file that held others
C18_Witness ==
  /\ lastOp.op = "restore"
  /\ lastOp.err = ""
  /\ TotalDocs(data) = 2
  /\ transactionBackup # Null

\* the documents of s that have not expired and hold a number under key
Countable(s, key, t) ==
  SelectSeq(s, LAMBDA item : ~ExpiredAt(item, t) /\ key \in DOMAIN item /\ key # "name")

RECURSIVE Total(_, _)
Total(s, key) == IF s = <<>> THEN 0 ELSE Head(s)[key] + Total(Tail(s), key)

\* C19: aggregate fails with NoNumericData exactly when no document that has
\* not expired holds a number under key; otherwise sum, min and max are the
\* sum, the least and the greatest of the numbers of those documents.
C19_AggregateReduces ==
  lastOp.op = "aggregate" =>
    LET key == lastOp.par[1]
        operation == lastOp.par[2]
        docs == Countable(data[lastOp.c], key, now)
        numbers == {docs[i][key] : i \in 1..Len(docs)}
    IN  /\ lastOp.err \in {"", "NoNumericData"}
        /\ (lastOp.err = "NoNumericData") <=> (docs = <<>>)
        /\ (lastOp.err = "" /\ operation = "sum") => lastOp.num = Total(docs, key)
        /\ (lastOp.err = "" /\ operation = "min") =>
              lastOp.num \in numbers /\ \A n \in numbers : lastOp.num <= n
        /\ (lastOp.err = "" /\ operation = "max") =>
              lastOp.num \in numbers /\ \A n \in numbers : lastOp.num >= n

\* the calls issued for a collection and an id, those past the duplicate
\* check, and those that passed it
CallsFor(c, id) ==
  {k \in Callers : calls[k].pc # "idle" /\ calls[k].c = c /\ calls[k].item.id = id}
Decided(c, id) == {k \in CallsFor(c, id) : calls[k].pc # "awaitEnsure"}
Winners(c, id) == {k \in Decided(c, id) : calls[k].pc \in {"awaitSave", "resolved"}}

\* C20: of the insert calls issued for one collection and one id without
\* awaiting one another, under every order of their resumptions, exactly one
\* passes the duplicate check, the others fail with DuplicateKey, and the
\* collection holds exactly one document with the id.
C20_OneConcurrentInsertWins ==
  \A c \in Collections, id \in Ids :
     /\ Decided(c, id) # {} => Cardinality(Winners(c, id)) = 1
     /\ \A k \in Decided(c, id) \ Winners(c, id) :
           calls[k].pc = "rejected" /\ calls[k].err = "DuplicateKey"
     /\ Cardinality({i \in 1..Len(Docs(data, c)) : data[c][i].id = id})
          = Cardinality(Winners(c, id))

\* two calls for one collection and id were in flight together: one has been
\* rejected while the write of the other has not landed
C20_Witness ==
  \E k, l \in Callers :
     /\ calls[k].pc = "awaitSave"
     /\ calls[l].pc = "rejected"
     /\ calls[l].c = calls[k].c
     /\ calls[l].item.id = calls[k].item.id
     /\ calls[l].item # calls[k].item

====
